---- MODULE Spec2Model ----
(***************************************************************************)
(* Checkout flow of server.js: create a gateway order, verify the signed   *)
(* payment callback, mint a time-limited download token, serve the file.  *)
(*                                                                         *)
(* Strings that the code takes apart or hashes (order ids, payment ids,    *)
(* signatures) are sequences of character codes; "" and a missing field    *)
(* are both the empty sequence (both are falsy at server.js:126).  A       *)
(* field that may be null/undefined is <<>> when absent and <<v>> when     *)
(* present.  Product ids, titles and file names are opaque strings.        *)
(***************************************************************************)
EXTENDS Integers, Sequences, FiniteSets, TLC

\* ---------------------------------------------------------------- bounds
MaxWrites == 3      \* requests that may write the ledger (orders sent to the
                    \* gateway plus successful verifications)
MaxTicks == 3       \* clock advances

\* ------------------------------------------------------------- constants
DOWNLOAD_TOKEN_TTL_MIN == 60
\* The shared secret comes from the environment; any fixed key will do.
RAZORPAY_KEY_SECRET == <<115, 51, 99>>
BASE_URL == "http://localhost:3000"
Bar == <<124>>

None == <<>>
Some(v) == <<v>>

TtlMs == DOWNLOAD_TOKEN_TTL_MIN * 60 * 1000

\* The seeded catalog (products.json).  No handler writes it, so every
\* productId stored in the ledger stays in the catalog.
sampleProducts ==
  << [id |-> "prod-ebook-1", title |-> "Mastering Productivity (eBook)",
      priceINR |-> 199, filename |-> "mastering-productivity.pdf"],
     [id |-> "prod-templates-1", title |-> "UI Kit & Templates",
      priceINR |-> 499, filename |-> "ui-kit-templates.zip"] >>

readProducts == sampleProducts

\* products.find(p => p.id === productId): the first match, or None.
RECURSIVE findProductFrom(_, _, _)
findProductFrom(products, i, productId) ==
  IF i > Len(products) THEN None
  ELSE IF products[i].id = productId THEN Some(products[i])
  ELSE findProductFrom(products, i + 1, productId)

findProduct(productId) == findProductFrom(readProducts, 1, productId)

Filenames == {sampleProducts[i].filename : i \in 1..Len(sampleProducts)}

\* ------------------------------------------------------------ signature
\* crypto.createHmac('sha256', key).update(msg).digest('hex'), scaled down to
\* a 16-bit keyed digest written as four hex digits.  What matters to the
\* handler is kept: the digest depends on the key and on every character of
\* the message, and distinct messages of the model get distinct digests
\* (DigestInjective below).
RECURSIVE Mix(_, _)
Mix(h, s) ==
  IF s = <<>> THEN h
  ELSE Mix((h * 31 + Head(s)) % 65536, Tail(s))

Hex(n) ==
  << (n \div 4096) % 16, (n \div 256) % 16, (n \div 16) % 16, n % 16 >>

createHmac(key, msg) == Hex(Mix(Mix(Mix(0, key), msg), key))

\* razorpay_order_id + "|" + razorpay_payment_id
SignedMessage(orderId, paymentId) == orderId \o Bar \o paymentId

generated_signature(orderId, paymentId) ==
  createHmac(RAZORPAY_KEY_SECRET, SignedMessage(orderId, paymentId))

\* --------------------------------------------------------------- inputs
OrderId(n) == <<111, n>>
PaymentId(n) == <<112, n>>

\* The order ids of callbacks.  A verification is only taken while fewer
\* than MaxWrites orders exist, so the last id is then an order the server
\* never created: a forged callback.
OrderIds == {OrderId(n) : n \in 1..MaxWrites}
ForgedSignature == <<0, 0, 0, 0>>
\* A made-up signature, and the gateway's signature for each order.
Signatures ==
  {ForgedSignature} \cup {generated_signature(o, PaymentId(1)) : o \in OrderIds}
\* Callback bodies: every complete one, and one with each field missing.
VerifyBodies ==
  {<<o, PaymentId(1), s>> : o \in OrderIds, s \in Signatures} \cup
  { <<None, PaymentId(1), generated_signature(OrderId(1), PaymentId(1))>>,
    <<OrderId(1), None, generated_signature(OrderId(1), PaymentId(1))>>,
    <<OrderId(1), PaymentId(1), None>> }
\* A missing productId, a product of the catalog, and an id the catalog lacks.
\* (Orders are placed for the first product only; the handlers treat the
\* second one alike.)
ProductIdInputs == {"", "prod-ebook-1", "prod-missing"}
\* {buyerName, buyerEmail} of the request body: one given, one absent.
BuyerInputs == {[name |-> "asha", email |-> ""]}
Tokens == 1..MaxWrites
\* The clock moves by half the token lifetime: a token minted at T is asked
\* for at T, T + TTL/2, T + TTL (the boundary) and beyond.
ClockSteps == {TtlMs \div 2}

VARIABLES
  paymentsFile,   \* payments.json: order id -> PaymentRecord
  pending,        \* create-order requests awaiting razorpay.orders.create
  started,        \* create-order requests that reached the gateway
  gatewayOrders,  \* orders the gateway has created (it numbers them)
  minted,         \* tokens nanoid has produced
  downloads,      \* file names present under downloads/
  now,            \* Date.now()
  ticks,          \* clock advances so far
  last,           \* the most recent exchange: the request's input and the
                  \* response sent (res.status, res.json / res.send)
  issued          \* history: every {token, orderId, expiresAt} a verification returned

vars == <<paymentsFile, pending, started, gatewayOrders, minted, downloads,
          now, ticks, last, issued>>

\* ---------------------------------------------------------------- store
EmptyLedger == [k \in {} |-> k]

\* JSON.parse of what JSON.stringify wrote: no record holds an undefined
\* field when it is written, so the file gives back the object as it was.
readPayments == paymentsFile

Put(payments, k, v) ==
  [x \in (DOMAIN payments) \cup {k} |-> IF x = k THEN v ELSE payments[x]]

\* The scan with the comparison left out: any record that has a token.
findAnyTokened(payments, token) ==
  {k \in DOMAIN payments : payments[k].downloadToken # None}

\* Object.values(payments).find(p => p.downloadToken === token): the records
\* that match; the scan returns one of them, or nothing when the set is empty.
findByToken(payments, token) ==
  {k \in DOMAIN payments : payments[k].downloadToken = Some(token)}

\* ------------------------------------------------------------ responses
NoCall ==
  [op |-> "none", productId |-> "", body |-> <<None, None, None>>,
   token |-> None, status |-> 0, error |-> "", order |-> None,
   downloadUrl |-> None, product |-> None, file |-> None]

Init ==
  /\ paymentsFile = EmptyLedger
  /\ pending = {}
  /\ started = 0
  /\ gatewayOrders = 0
  /\ minted = {}
  /\ downloads \in {Filenames, {"ui-kit-templates.zip"}}
  /\ now = 1
  /\ ticks = 0
  /\ last = NoCall
  /\ issued = {}

\* ---------------------------------------------------- POST /api/create-order
\* The amount without the conversion to paise.
amountRupees(product) == product.priceINR

\* Line 83.
amountPaise(product) == product.priceINR * 100

\* Lines 75-92: validation, product lookup, and the gateway request sent.
CreateOrder(productId, buyerName, buyerEmail) ==
  LET call == [NoCall EXCEPT !.op = "create", !.productId = productId]
      found == findProduct(productId)
  IN
  IF productId = "" THEN
    /\ last' = [call EXCEPT !.status = 400, !.error = "InvalidRequest"]
    /\ UNCHANGED <<paymentsFile, pending, started, gatewayOrders, minted,
                   downloads, now, ticks, issued>>
  ELSE IF found = None THEN
    /\ last' = [call EXCEPT !.status = 404, !.error = "NotFound"]
    /\ UNCHANGED <<paymentsFile, pending, started, gatewayOrders, minted,
                   downloads, now, ticks, issued>>
  ELSE
    /\ started + Cardinality(minted) < MaxWrites
    /\ started' = started + 1
    /\ pending' = pending \cup
         {[rid |-> started + 1,
           product |-> found[1],
           buyerName |-> buyerName,
           buyerEmail |-> buyerEmail,
           options |-> [amount |-> amountPaise(found[1]),
                        currency |-> "INR",
                        receipt |-> <<"rcpt", found[1].id, now>>,
                        payment_capture |-> 1]]}
    /\ UNCHANGED <<paymentsFile, gatewayOrders, minted, downloads, now,
                   ticks, last, issued>>

\* buyerName || null
OrNull(s) == IF s = "" THEN None ELSE Some(s)

\* Lines 96-105: the pending record.
PendingRecord(req, order) ==
  [status |-> "created",
   orderId |-> order.id,
   productId |-> req.product.id,
   productTitle |-> req.product.title,
   amountINR |-> req.product.priceINR,
   buyerName |-> OrNull(req.buyerName),
   buyerEmail |-> OrNull(req.buyerEmail),
   createdAt |-> now,
   razorpay_payment_id |-> None,
   razorpay_signature |-> None,
   downloadToken |-> None,
   downloadExpiresAt |-> None]

\* The same without the read: only the new entry is written back.
StorePendingAlone(req, order) ==
  Put(EmptyLedger, order.id, PendingRecord(req, order))

\* Lines 95-106: read the ledger, set the entry, write the ledger back.  The
\* three statements run in one turn of the event loop, after the await.
StorePending(req, order) ==
  Put(readPayments, order.id, PendingRecord(req, order))

\* The gateway's answer to orders.create: a new order, with an id it has not
\* given out before, echoing the amount.
GatewayOrder(req) ==
  [id |-> OrderId(gatewayOrders + 1), amount |-> req.options.amount,
   currency |-> req.options.currency, receipt |-> req.options.receipt]

\* Lines 92-108: the await resolves.
CreateOrderResolved(req) ==
  LET order == GatewayOrder(req) IN
  /\ req \in pending
  /\ pending' = pending \ {req}
  /\ gatewayOrders' = gatewayOrders + 1
  /\ paymentsFile' = StorePending(req, order)
  /\ last' = [NoCall EXCEPT !.op = "create", !.status = 200,
                            !.productId = req.product.id,
                            !.order = Some(order)]
  /\ UNCHANGED <<started, minted, downloads, now, ticks, issued>>

\* The rejection handled as if the pending record were written before the
\* gateway answered: the record stays, keyed by the request's receipt.
CreateOrderFailedStores(req) ==
  /\ req \in pending
  /\ pending' = pending \ {req}
  /\ paymentsFile' =
       Put(readPayments, <<114, req.rid>>,
           PendingRecord(req, [id |-> <<114, req.rid>>]))
  /\ last' = [NoCall EXCEPT !.op = "create", !.status = 500,
                            !.productId = req.product.id,
                            !.error = "UpstreamError"]
  /\ UNCHANGED <<started, gatewayOrders, minted, downloads, now, ticks,
                 issued>>

\* Lines 109-112: the await rejects.
CreateOrderFailed(req) ==
  /\ req \in pending
  /\ pending' = pending \ {req}
  /\ last' = [NoCall EXCEPT !.op = "create", !.status = 500,
                            !.productId = req.product.id,
                            !.error = "UpstreamError"]
  /\ UNCHANGED <<paymentsFile, started, gatewayOrders, minted, downloads,
                 now, ticks, issued>>

\* -------------------------------------------------- POST /api/verify-payment
\* The comparison left out: every signature passes.
SignatureUnchecked(orderId, paymentId, signature) == TRUE

\* The digest taken over the order id alone.
SignatureOverOrderOnly(orderId, paymentId, signature) ==
  createHmac(RAZORPAY_KEY_SECRET, orderId) = signature

\* Line 135.
SignatureMatches(orderId, paymentId, signature) ==
  generated_signature(orderId, paymentId) = signature

\* Lines 150-154.
PaidRecord(local, paymentId, signature, token, expiresAt) ==
  [local EXCEPT !.status = "paid",
                !.razorpay_payment_id = paymentId,
                !.razorpay_signature = signature,
                !.downloadToken = Some(token),
                !.downloadExpiresAt = Some(expiresAt)]

\* nanoid(32): a string it has not produced before (a repeat among 64^32 is
\* not a case the handler is written for).
nanoid == Cardinality(minted) + 1

VerifyPayment(orderId, paymentId, signature) ==
  LET call == [NoCall EXCEPT !.op = "verify",
                             !.body = <<orderId, paymentId, signature>>]
      payments == readPayments
      token == nanoid
  IN
  /\ started + Cardinality(minted) < MaxWrites
  /\ IF orderId = None \/ paymentId = None \/ signature = None THEN
       /\ last' = [call EXCEPT !.status = 400, !.error = "InvalidRequest"]
       /\ UNCHANGED <<paymentsFile, minted, issued>>
     ELSE IF ~SignatureMatches(orderId, paymentId, signature) THEN
       /\ last' = [call EXCEPT !.status = 400, !.error = "SignatureInvalid"]
       /\ UNCHANGED <<paymentsFile, minted, issued>>
     ELSE IF orderId \notin DOMAIN payments THEN
       /\ last' = [call EXCEPT !.status = 404, !.error = "NotFound"]
       /\ UNCHANGED <<paymentsFile, minted, issued>>
     ELSE
       LET local == payments[orderId]
           expiresAt == now + TtlMs
           product == findProduct(local.productId)[1]
       IN
       /\ minted' = minted \cup {token}
       /\ paymentsFile' =
            Put(payments, orderId,
                PaidRecord(local, paymentId, signature, token, expiresAt))
       /\ issued' = issued \cup
            {[token |-> token, orderId |-> orderId, expiresAt |-> expiresAt]}
       /\ last' = [call EXCEPT
                     !.status = 200,
                     !.downloadUrl = Some(<<BASE_URL, "download", token>>),
                     !.product = Some([id |-> product.id,
                                       title |-> product.title])]
  /\ UNCHANGED <<pending, started, gatewayOrders, downloads, now, ticks>>

\* ------------------------------------------------------ GET /download/:token
\* Line 178.
IsExpired(entry, t) ==
  /\ entry.downloadExpiresAt # None
  /\ entry.downloadExpiresAt[1] < t

ResolveDownload(token) ==
  LET call == [NoCall EXCEPT !.op = "resolve", !.token = Some(token)]
      payments == readPayments
      hits == findByToken(payments, token)
  IN
  /\ IF hits = {} THEN
       last' = [call EXCEPT !.status = 404, !.error = "NotFound"]
     ELSE
       \E k \in hits :
         LET orderEntry == payments[k]
             product == findProduct(orderEntry.productId)
         IN
         IF IsExpired(orderEntry, now) THEN
           last' = [call EXCEPT !.status = 410, !.error = "Expired"]
         ELSE IF product = None THEN
           last' = [call EXCEPT !.status = 404, !.error = "NotFound"]
         ELSE IF product[1].filename \notin downloads THEN
           last' = [call EXCEPT !.status = 404, !.error = "NotFound"]
         ELSE
           last' = [call EXCEPT !.status = 200,
                                !.file = Some(product[1].filename)]
  /\ UNCHANGED <<paymentsFile, pending, started, gatewayOrders, minted,
                 downloads, now, ticks, issued>>

\* ------------------------------------------------------------------ clock
Tick(d) ==
  /\ ticks < MaxTicks
  /\ ticks' = ticks + 1
  /\ now' = now + d
  /\ UNCHANGED <<paymentsFile, pending, started, gatewayOrders, minted,
                 downloads, last, issued>>

Next ==
  \/ \E p \in ProductIdInputs, b \in BuyerInputs :
       CreateOrder(p, b.name, b.email)
  \/ \E req \in pending : CreateOrderResolved(req)
  \/ \E req \in pending : CreateOrderFailed(req)
  \/ \E b \in VerifyBodies : VerifyPayment(b[1], b[2], b[3])
  \/ \E t \in Tokens : ResolveDownload(t)
  \/ \E d \in ClockSteps : Tick(d)

Spec == Init /\ [][Next]_vars

\* The model's digest separates the model's messages, as SHA-256 does.
DigestInjective ==
  \A o1 \in OrderIds \cup {None}, o2 \in OrderIds \cup {None},
     p1 \in {None, PaymentId(1)}, p2 \in {None, PaymentId(1)} :
    generated_signature(o1, p1) = generated_signature(o2, p2)
      => (o1 = o2 /\ p1 = p2)

TypeOK ==
  /\ DOMAIN paymentsFile \subseteq {OrderId(n) : n \in 1..MaxWrites}
  /\ minted \subseteq Tokens
  /\ ticks \in 0..MaxTicks

\* ------------------------------------------------------------ properties
AllPresent(o, p, s) == o # None /\ p # None /\ s # None

HasToken(payments, t) ==
  \E k \in DOMAIN payments : payments[k].downloadToken = Some(t)

FileOnDisk(payments, k) ==
  findProduct(payments[k].productId)[1].filename \in downloads

VerifyRejectedUntouched ==
  /\ last'.status = 400
  /\ last'.error = "SignatureInvalid"
  /\ paymentsFile' = paymentsFile
  /\ minted' = minted
  /\ issued' = issued
  /\ last'.downloadUrl = None

\* C1 as stated: every call whose supplied signature differs from the expected
\* digest is rejected with SignatureInvalid, the ledger is untouched and no
\* token is issued.
C1_AnyMismatchIsSignatureInvalid ==
  [][last'.op = "verify" =>
       LET b == last'.body IN
       (VerifyPayment(b[1], b[2], b[3]) /\ b[3] # None
          /\ b[3] # generated_signature(b[1], b[2]))
         => VerifyRejectedUntouched]_vars

\* C1 amended: with all three inputs present, a signature that differs from
\* the expected digest is rejected with SignatureInvalid, the ledger is
\* untouched and no token is issued; with an input missing the call is
\* rejected with InvalidRequest, the ledger likewise untouched.
C1_MismatchRejected ==
  [][last'.op = "verify" =>
       LET b == last'.body IN
       /\ (VerifyPayment(b[1], b[2], b[3]) /\ AllPresent(b[1], b[2], b[3])
             /\ b[3] # generated_signature(b[1], b[2]))
            => VerifyRejectedUntouched
       /\ (VerifyPayment(b[1], b[2], b[3]) /\ ~AllPresent(b[1], b[2], b[3]))
            => /\ last'.error = "InvalidRequest"
               /\ paymentsFile' = paymentsFile
               /\ issued' = issued]_vars

C1_Witness ==
  /\ last.op = "verify"
  /\ last.error = "SignatureInvalid"
  /\ \E k \in DOMAIN paymentsFile : paymentsFile[k].status = "created"

VerifySucceeded(o) ==
  /\ last'.status = 200
  /\ last'.downloadUrl # None
  /\ o \in DOMAIN paymentsFile'
  /\ paymentsFile'[o].status = "paid"
  /\ last'.downloadUrl = Some(<<BASE_URL, "download", paymentsFile'[o].downloadToken[1]>>)

\* C2 as stated: with all inputs present, verification succeeds if and only
\* if the signature equals the expected digest.
C2_SucceedsIffSignature ==
  [][last'.op = "verify" =>
       LET b == last'.body IN
       (VerifyPayment(b[1], b[2], b[3]) /\ AllPresent(b[1], b[2], b[3]))
         => (VerifySucceeded(b[1]) <=> b[3] = generated_signature(b[1], b[2]))]_vars

\* C2 amended: with all inputs present, verification succeeds if and only if
\* the signature equals the expected digest and the ledger has an entry for
\* the order id; a matching signature for an order the ledger lacks fails
\* with NotFound.
C2_SucceedsIffSignatureAndOrder ==
  [][last'.op = "verify" =>
       LET b == last'.body IN
       (VerifyPayment(b[1], b[2], b[3]) /\ AllPresent(b[1], b[2], b[3]))
         => /\ VerifySucceeded(b[1])
                 <=> (b[3] = generated_signature(b[1], b[2]) /\ b[1] \in DOMAIN paymentsFile)
            /\ (b[3] = generated_signature(b[1], b[2]) /\ b[1] \notin DOMAIN paymentsFile)
                 => last'.error = "NotFound"
            /\ ~VerifySucceeded(b[1]) => last'.status # 200]_vars

C2_Witness ==
  /\ last.op = "verify"
  /\ last.status = 200
  /\ \E i \in issued : last.downloadUrl = Some(<<BASE_URL, "download", i.token>>)

CatalogPrice(productId) == findProduct(productId)[1].priceINR

\* C3 as stated: a successful createOrder leaves an entry, keyed by the
\* returned order id, in status created whose recorded amount is price x 100.
C3_RecordedAmountIsMinorUnits ==
  (last.op = "create" /\ last.status = 200) =>
    LET order == last.order[1] IN
    /\ order.id \in DOMAIN paymentsFile
    /\ paymentsFile[order.id].status = "created"
    /\ paymentsFile[order.id].amountINR
         = CatalogPrice(paymentsFile[order.id].productId) * 100

\* C3 amended: a successful createOrder leaves an entry, keyed by the returned
\* order id, in status created; the amount requested from the gateway is
\* price x 100, and the amount recorded in the entry (amountINR) is the price
\* itself, in major units.
C3_CreatedWithPrice ==
  (last.op = "create" /\ last.status = 200) =>
    LET order == last.order[1] IN
    /\ order.id \in DOMAIN paymentsFile
    /\ paymentsFile[order.id].status = "created"
    /\ paymentsFile[order.id].orderId = order.id
    /\ order.amount = CatalogPrice(paymentsFile[order.id].productId) * 100
    /\ paymentsFile[order.id].amountINR
         = CatalogPrice(paymentsFile[order.id].productId)

C3_Witness ==
  /\ last.op = "create"
  /\ last.status = 200
  /\ last.order[1].amount = 19900
  /\ paymentsFile[last.order[1].id].amountINR = 199

\* C4 as stated: after a successful verification the order carries a token,
\* and the token that verification returned is served on every call before
\* downloadExpiresAt and answered Expired on every call after it (the
\* product's file being on disk).
C4_IssuedTokenServedUntilExpiry ==
  [][\A i \in issued :
       /\ paymentsFile[i.orderId].downloadToken # None
       /\ (ResolveDownload(i.token) /\ FileOnDisk(paymentsFile, i.orderId))
            => /\ now < i.expiresAt => last'.status = 200
               /\ now > i.expiresAt => last'.error = "Expired"]_vars

\* C5 as stated: a token found in the ledger is served only while
\* now < downloadExpiresAt, and answered Expired when now >= downloadExpiresAt
\* (taken here with the product's file on disk, so that a refusal is the
\* expiry check's).
C5_ExpiredAtBoundary ==
  [][\A t \in Tokens :
       (ResolveDownload(t) /\ HasToken(paymentsFile, t))
         => \A k \in findByToken(paymentsFile, t) :
              FileOnDisk(paymentsFile, k) =>
              /\ last'.status = 200
                   => now < paymentsFile[k].downloadExpiresAt[1]
              /\ now >= paymentsFile[k].downloadExpiresAt[1]
                   => last'.error = "Expired"]_vars

\* C6 as stated: only a created record is promoted, a valid verification of
\* a record that is already paid leaves it as it is, and a paid record is
\* never moved back to created nor deleted.
C6_VerifiedOnce ==
  [][/\ last'.op = "verify" =>
          LET b == last'.body IN
          (VerifyPayment(b[1], b[2], b[3]) /\ b[1] \in DOMAIN paymentsFile
             /\ paymentsFile[b[1]].status = "paid")
            => paymentsFile'[b[1]] = paymentsFile[b[1]]
     /\ \A k \in DOMAIN paymentsFile :
          paymentsFile[k].status = "paid"
            => (k \in DOMAIN paymentsFile' /\ paymentsFile'[k].status = "paid")]_vars

\* C7 as stated: no two records carry the same token, and every token a
\* verification returned resolves to exactly the record of its order.
C7_TokensUniqueAndStable ==
  /\ \A k1 \in DOMAIN paymentsFile, k2 \in DOMAIN paymentsFile :
       (paymentsFile[k1].downloadToken # None
          /\ paymentsFile[k1].downloadToken = paymentsFile[k2].downloadToken)
         => k1 = k2
  /\ \A i \in issued : findByToken(paymentsFile, i.token) = {i.orderId}

\* C8: when the gateway call fails, createOrder answers UpstreamError (500)
\* and the ledger is as it was: the request writes nothing before the gateway
\* answers and nothing when the call is rejected.
C8_GatewayFailureWritesNothing ==
  [][/\ \A req \in pending :
          CreateOrderFailed(req)
            => /\ last'.status = 500
               /\ last'.error = "UpstreamError"
               /\ paymentsFile' = paymentsFile
     /\ \A p \in ProductIdInputs, b \in BuyerInputs :
          CreateOrder(p, b.name, b.email) => paymentsFile' = paymentsFile]_vars

C8_Witness ==
  /\ last.op = "create"
  /\ last.status = 500
  /\ paymentsFile # EmptyLedger
  /\ Cardinality(DOMAIN paymentsFile) = gatewayOrders
  /\ started > gatewayOrders + Cardinality(pending)

\* C9: a token that is the downloadToken of no record is answered NotFound
\* (404), never Expired, whatever else the ledger holds.
C9_UnknownTokenNotFound ==
  [][\A t \in Tokens :
       (ResolveDownload(t) /\ ~HasToken(paymentsFile, t))
         => (last'.status = 404 /\ last'.error = "NotFound")]_vars

\* All files are on disk, so this 404 is the unknown token's; the ledger holds
\* a record without a token and a record whose token has expired.
C9_Witness ==
  /\ last.op = "resolve"
  /\ last.status = 404
  /\ downloads = Filenames
  /\ \E k \in DOMAIN paymentsFile : paymentsFile[k].downloadToken = None
  /\ \E k \in DOMAIN paymentsFile :
       /\ paymentsFile[k].downloadExpiresAt # None
       /\ paymentsFile[k].downloadExpiresAt[1] < now

\* An answered request whose change the ledger no longer holds.  Every order
\* the gateway created was answered to its createOrder caller.
LostUpdate ==
  \/ \E n \in 1..gatewayOrders : OrderId(n) \notin DOMAIN paymentsFile
  \/ \E i \in issued :
       \/ i.orderId \notin DOMAIN paymentsFile
       \/ paymentsFile[i.orderId].status # "paid"
       \/ paymentsFile[i.orderId].downloadToken = None

\* The request was in flight while a request that arrived after it wrote the
\* ledger: it is the first request, no gateway call has failed, and the
\* gateway has already created an order.
WrittenOver(req) ==
  /\ req.rid = 1
  /\ started = Cardinality(pending) + gatewayOrders
  /\ gatewayOrders >= 1

\* C10 as stated, on the interleaving it describes: when a request that was
\* in flight while another request wrote the ledger writes in its turn, the
\* later write overwrites the earlier one and an answered request's change is
\* missing afterwards.
C10_LaterWriteClobbers ==
  [][\A req \in pending :
       (CreateOrderResolved(req) /\ WrittenOver(req)) => LostUpdate']_vars

\* C10 amended: in the single server process no interleaving of requests
\* loses a ledger update: every order a createOrder answered is in the
\* ledger, and every order a verification answered is paid and carries a
\* token, also when the requests were in flight together.
C10_NoLostUpdate == ~LostUpdate

\* Two create-order requests overlap: no gateway call has failed, the first
\* request is still in flight, and a request that arrived after it has been
\* answered and has its entry in the ledger.
C10_Witness ==
  /\ \E req \in pending : WrittenOver(req)
  /\ OrderId(1) \in DOMAIN paymentsFile
====
